---- MODULE Spec2Model ----
(***************************************************************************)
(* Model of generate-glyphs.js: the range computer                         *)
(* (generateDynamicRangesFromFont), the directory scanner (walkDirectory)  *)
(* and the pipeline (generateGlyphsFromFonts) with the asynchronous        *)
(* completions of fontnik.range.                                           *)
(*                                                                         *)
(* File names are sequences of one-character strings, so that              *)
(* path.extname, String.toLowerCase, path.basename and the template        *)
(* string `${start}-${end}.pbf` are computed character by character.       *)
(* A path is a sequence of names relative to its root (srcDir or distDir). *)
(***************************************************************************)
EXTENDS Integers, Sequences, FiniteSets

VARIABLES
    charSet,     \* range computer: font.characterSet of the font at hand
    rangePc,     \* range computer: "call", "loop" or "returned"
    loopStart,   \* range computer: the local variable start
    loopMax,     \* range computer: the local constant maxCP
    ranges,      \* range computer: the array ranges, returned at the end
    srcStatus,   \* source root: "ok", "missing" or "unreadable"
    tree,        \* source tree: path -> "dir" | "file"
    dirOrder,    \* order in which readdirSync lists names: "asc" | "desc"
    fontOf,      \* bytes of each font file of the tree: path -> font data
    rasterErr,   \* the (face, start) pairs for which fontnik.range reports err
    distExists,  \* whether distDir exists
    distDirs,    \* the per-font subdirectories of distDir
    dist,        \* the files of distDir: <<fontName, fileName>> -> content
    runs,        \* number of runs of the script started so far
    aborted,     \* the last run ended with an uncaught exception
    fontFiles,   \* the list walkDirectory returned in the last run or scan
    processed,   \* font files read (readFileSync) in the last run
    skipped,     \* font files skipped with the "No codepoints" warning
    calls,       \* fontnik.range invocations of the last run, in call order
    errored,     \* indices of calls whose callback received err
    generated,   \* indices of calls whose callback wrote its file
    distAtStart, \* the files of distDir when the last run started
    scans,       \* number of calls of walkDirectory(srcDir) made on its own
    prevFiles    \* the list the scan before the last one returned

vars == <<charSet, rangePc, loopStart, loopMax, ranges, srcStatus, tree, dirOrder, fontOf,
          rasterErr, distExists, distDirs, dist, runs, aborted,
          fontFiles, processed, skipped, calls, errored, generated,
          distAtStart, scans, prevFiles>>

rangeVars == <<charSet, rangePc, loopStart, loopMax, ranges>>
srcVars == <<srcStatus, tree, dirOrder, fontOf, rasterErr>>
distVars == <<distExists, distDirs, dist>>
runVars == <<runs, aborted, processed, skipped, calls, errored,
             generated, distAtStart>>
scanVars == <<scans, prevFiles>>

-----------------------------------------------------------------------------
(* Numbers and strings *)

rangeSize == 256

\* The largest codepoint the rasterizer accepts: the 16-bit limit 65535.
MaxCodepoint == 2^16 - 1

SetMin(S) == CHOOSE x \in S : \A y \in S : x <= y
SetMax(S) == CHOOSE x \in S : \A y \in S : x >= y

\* JavaScript's %: the remainder has the sign of the dividend.
JsRem(a, b) == IF a >= 0 THEN a % b ELSE 0 - ((0 - a) % b)

Digit(d) == <<"0", "1", "2", "3", "4", "5", "6", "7", "8", "9">>[d + 1]

\* String(n) for a non-negative integer: its decimal digits.
RECURSIVE ToDecimal(_)
ToDecimal(n) == IF n < 10 THEN <<Digit(n)>>
                ELSE Append(ToDecimal(n \div 10), Digit(n % 10))

\* String.prototype.toLowerCase on the letters that occur in the names.
LowerChar(c) ==
    CASE c = "T" -> "t"
      [] c = "F" -> "f"
      [] c = "O" -> "o"
      [] OTHER -> c

toLowerCase(s) == [i \in 1..Len(s) |-> LowerChar(s[i])]

\* Index of the last "." of a name, 0 when it has none.
LastDot(name) ==
    LET dots == {i \in 1..Len(name) : name[i] = "."}
    IN  IF dots = {} THEN 0 ELSE SetMax(dots)

\* path.extname: from the last "." to the end; empty when the name has no
\* "." or when its only "." is its first character.
extname(name) ==
    IF LastDot(name) <= 1 THEN <<>>
    ELSE SubSeq(name, LastDot(name), Len(name))

EndsWith(s, suffix) ==
    /\ Len(suffix) <= Len(s)
    /\ SubSeq(s, Len(s) - Len(suffix) + 1, Len(s)) = suffix

\* path.basename(name, ext) of a single path component.
basename(name, ext) ==
    IF ext # <<>> /\ name # ext /\ EndsWith(name, ext)
    THEN SubSeq(name, 1, Len(name) - Len(ext))
    ELSE name

-----------------------------------------------------------------------------
(* Range computer *)

\* The 256 boundary at or below minCP, never negative.
firstStart(minCP) ==
    LET start == minCP - JsRem(minCP, rangeSize)
    IN  IF start < 0 THEN 0 ELSE start

\* Variant of loopCond that stops one codepoint early.
loopCondStrict(start, maxCP) == start < maxCP

\* The condition of the while loop.
loopCond(start, maxCP) == start <= maxCP

\* The range one iteration of the loop pushes.
loopRange(start) == <<start, start + rangeSize - 1>>

\* The while loop, from the value start has on entering it.
RECURSIVE RangeLoop(_, _, _)
RangeLoop(start, maxCP, acc) ==
    IF loopCond(start, maxCP)
    THEN RangeLoop(start + rangeSize, maxCP, Append(acc, loopRange(start)))
    ELSE acc

\* fontkit.create(fontBuffer).characterSet: the codepoints of the font.
characterSet(fontBuffer) == fontBuffer.characterSet

generateDynamicRangesFromFont(fontBuffer) ==
    IF Cardinality(characterSet(fontBuffer)) = 0 THEN <<>>
    ELSE LET minCP == SetMin(characterSet(fontBuffer))
             maxCP == SetMax(characterSet(fontBuffer))
         IN  RangeLoop(firstStart(minCP), maxCP, <<>>)

-----------------------------------------------------------------------------
(* Directory scanner *)

Str_a_ttf == <<"a", ".", "t", "t", "f">>
Str_a_OTF == <<"a", ".", "O", "T", "F">>
Str_g_otf == <<"g", ".", "o", "t", "f">>
Str_d_txt == <<"d", ".", "t", "x", "t">>
Str_dotttf == <<".", "t", "t", "f">>
Str_e == <<"e">>
Str_b == <<"b">>
Str_c == <<"c">>
Str_x_ttf == <<"x", ".", "t", "t", "f">>

\* The names in the ascending order of a directory listing.
AllNames == <<Str_dotttf, Str_a_OTF, Str_a_ttf, Str_b, Str_c, Str_d_txt,
              Str_e, Str_g_otf, Str_x_ttf>>

Reverse(s) == [i \in 1..Len(s) |-> s[Len(s) + 1 - i]]

\* path.join(dir, file)
join(dir, file) == Append(dir, file)

\* fs.readdirSync(dir): the names of dir's entries, in the file system's order.
readdirSync(t, order, dir) ==
    LET present(name) == join(dir, name) \in DOMAIN t
    IN  SelectSeq(IF order = "asc" THEN AllNames ELSE Reverse(AllNames),
                  present)

\* fs.statSync(filePath).isDirectory()
isDirectory(t, filePath) == t[filePath] = "dir"

isFontExt(ext) == ext = <<".", "t", "t", "f">> \/ ext = <<".", "o", "t", "f">>

\* Variant of walkEntries that does not descend into subdirectories.
RECURSIVE walkEntriesFlat(_, _, _, _, _)
walkEntriesFlat(t, order, dir, list, i) ==
    IF i > Len(list) THEN <<>>
    ELSE LET file == list[i]
             filePath == join(dir, file)
             here == IF isDirectory(t, filePath)
                     THEN <<>>
                     ELSE IF isFontExt(toLowerCase(extname(file)))
                          THEN <<filePath>>
                          ELSE <<>>
         IN  here \o walkEntriesFlat(t, order, dir, list, i + 1)

RECURSIVE walkDirectory(_, _, _)
RECURSIVE walkEntries(_, _, _, _, _)

\* The forEach of walkDirectory over list, from its i-th name on.
walkEntries(t, order, dir, list, i) ==
    IF i > Len(list) THEN <<>>
    ELSE LET file == list[i]
             filePath == join(dir, file)
             here == IF isDirectory(t, filePath)
                     THEN walkDirectory(t, order, filePath)
                     ELSE IF isFontExt(toLowerCase(extname(file)))
                          THEN <<filePath>>
                          ELSE <<>>
         IN  here \o walkEntries(t, order, dir, list, i + 1)

walkDirectory(t, order, dir) ==
    walkEntries(t, order, dir, readdirSync(t, order, dir), 1)

\* Variant of readdirThrows in which an unreadable directory lists as usual.
readdirThrowsIfMissing(status) == status = "missing"

\* readdirSync(srcDir) throws when srcDir is missing or unreadable.
readdirThrows(status) == status # "ok"

-----------------------------------------------------------------------------
(* Glyph emitter *)

Last(s) == s[Len(s)]

\* `${start}-${end}.pbf`
pbfName(start, end) ==
    ToDecimal(start) \o <<"-">> \o ToDecimal(end) \o <<".", "p", "b", "f">>

\* The fontnik.range invocations of one font, one per range, in order.
rangeCalls(fontFile, fontData, fontDestDir, dynamicRanges) ==
    [k \in 1..Len(dynamicRanges) |->
        [fontFile |-> fontFile, font |-> fontData, fontDestDir |-> fontDestDir,
         start |-> dynamicRanges[k][1], end |-> dynamicRanges[k][2]]]

\* Variant of forEachFont in which a font without codepoints ends the loop.
RECURSIVE forEachFontStop(_, _, _, _)
forEachFontStop(files, i, content, acc) ==
    IF i > Len(files) THEN acc
    ELSE LET fontFile == files[i]
             fontData == content[fontFile]
             dynamicRanges == generateDynamicRangesFromFont(fontData)
             read == [acc EXCEPT !.processed = @ \cup {fontFile}]
             fontName == basename(Last(fontFile), extname(Last(fontFile)))
             fontDestDir == join(<<>>, fontName)
         IN  IF Len(dynamicRanges) = 0
             THEN [read EXCEPT !.skipped = @ \cup {fontFile}]
             ELSE forEachFontStop(files, i + 1, content,
                      [read EXCEPT
                          !.dirs = @ \cup {fontDestDir},
                          !.calls = @ \o rangeCalls(fontFile, fontData,
                                                    fontDestDir, dynamicRanges)])

\* The forEach over fontFiles from the i-th file on. acc collects the files
\* read, the files skipped, the subdirectories made and the calls issued.
RECURSIVE forEachFont(_, _, _, _)
forEachFont(files, i, content, acc) ==
    IF i > Len(files) THEN acc
    ELSE LET fontFile == files[i]
             fontData == content[fontFile]
             dynamicRanges == generateDynamicRangesFromFont(fontData)
             read == [acc EXCEPT !.processed = @ \cup {fontFile}]
             fontName == basename(Last(fontFile), extname(Last(fontFile)))
             fontDestDir == join(<<>>, fontName)
         IN  IF Len(dynamicRanges) = 0
             THEN forEachFont(files, i + 1, content,
                      [read EXCEPT !.skipped = @ \cup {fontFile}])
             ELSE forEachFont(files, i + 1, content,
                      [read EXCEPT
                          !.dirs = @ \cup {fontDestDir},
                          !.calls = @ \o rangeCalls(fontFile, fontData,
                                                    fontDestDir, dynamicRanges)])

\* What fontnik.range hands to the callback of a call: err, or the packet.
rasterFails(call) == <<call.font.face, call.start>> \in rasterErr
packet(call) == [font |-> call.font, start |-> call.start, end |-> call.end]

\* path.join(fontDestDir, `${start}-${end}.pbf`)
outFile(call) == join(call.fontDestDir, pbfName(call.start, call.end))

\* fs.writeFileSync(file, data): creates the file or replaces its content.
writeFileSync(files, file, data) ==
    [f \in DOMAIN files \cup {file} |-> IF f = file THEN data ELSE files[f]]

\* The calls whose callback has not run yet.
Pending == (1..Len(calls)) \ (errored \cup generated)

\* Variant of onRangeError in which an error drops the font's other calls.
onRangeErrorDropFont(i) ==
    errored \cup {j \in Pending : calls[j].fontFile = calls[i].fontFile}

\* The callbacks that have run once the callback of call i received err.
onRangeError(i) == errored \cup {i}

-----------------------------------------------------------------------------
(* Inputs *)

MaxRuns == 2
MaxScans == 2

\* Codepoints around the block boundaries and the 16-bit limit.
Codepoints == {0, 255, 256, 300, 65279, 65535, 65536, 70000}

FontE == [face |-> "E", characterSet |-> {}]
FontA == [face |-> "A", characterSet |-> {0}]
FontB == [face |-> "B", characterSet |-> {0, 300}]
FontDatas == {FontE, FontA, FontB}
NotAFont == [face |-> "none", characterSet |-> {}]

DirPaths == {<<Str_b>>, <<Str_b, Str_c>>, <<Str_x_ttf>>}

ScanUniverse ==
    {<<Str_a_ttf>>, <<Str_d_txt>>, <<Str_dotttf>>, <<Str_b>>,
     <<Str_b, Str_a_OTF>>, <<Str_b, Str_d_txt>>, <<Str_b, Str_c>>,
     <<Str_b, Str_c, Str_a_ttf>>, <<Str_x_ttf>>, <<Str_x_ttf, Str_e>>,
     <<Str_x_ttf, Str_a_OTF>>}

PipelineUniverse ==
    {<<Str_a_ttf>>, <<Str_g_otf>>, <<Str_b>>, <<Str_b, Str_a_OTF>>,
     <<Str_b, Str_d_txt>>}

FontNames == {Str_a_ttf, Str_a_OTF, Str_g_otf}

\* The trees over a universe of paths: every entry's parent is a directory
\* of the tree.
Trees(U) ==
    {[p \in S |-> IF p \in DirPaths THEN "dir" ELSE "file"] :
        S \in {T \in SUBSET U :
                 \A p \in T : Len(p) > 1 => SubSeq(p, 1, Len(p) - 1) \in T}}

\* The bytes of the files of a tree: font data in the font files.
Contents(t) ==
    LET files == {p \in DOMAIN t : t[p] = "file"}
    IN  {c \in [files -> FontDatas \cup {NotAFont}] :
            \A p \in files : (c[p] = NotAFont) <=> (Last(p) \notin FontNames)}

RasterErrCandidates == {<<"A", 0>>, <<"B", 256>>}

OldPacket == [font |-> [face |-> "old", characterSet |-> {0, 600}],
              start |-> 0, end |-> 255]

\* Files an earlier run of the script left in distDir.
StaleFiles == {<<<<"a">>, pbfName(0, 255)>>, <<<<"a">>, pbfName(512, 767)>>}

RangeIdle ==
    /\ charSet = {} /\ rangePc = "call"
    /\ loopStart = 0 /\ loopMax = 0 /\ ranges = <<>>

RunIdle ==
    /\ runs = 0 /\ aborted = FALSE /\ fontFiles = <<>>
    /\ processed = {} /\ skipped = {} /\ calls = <<>>
    /\ errored = {} /\ generated = {}
    /\ scans = 0 /\ prevFiles = <<>>

-----------------------------------------------------------------------------
(* The range computer on its own *)

InitRanges ==
    /\ charSet \in SUBSET Codepoints
    /\ rangePc = "call" /\ loopStart = 0 /\ loopMax = 0 /\ ranges = <<>>
    /\ srcStatus = "ok" /\ tree = <<>> /\ dirOrder = "asc" /\ fontOf = <<>>
    /\ rasterErr = {}
    /\ distExists = FALSE /\ distDirs = {} /\ dist = <<>> /\ distAtStart = <<>>
    /\ RunIdle

\* generateDynamicRangesFromFont up to its while loop, or to its early return.
RangeEnter ==
    /\ rangePc = "call"
    /\ IF Cardinality(charSet) = 0
       THEN /\ rangePc' = "returned"
            /\ UNCHANGED <<loopStart, loopMax>>
       ELSE /\ rangePc' = "loop"
            /\ loopStart' = firstStart(SetMin(charSet))
            /\ loopMax' = SetMax(charSet)
    /\ UNCHANGED <<charSet, ranges, srcVars, distVars, runVars, fontFiles,
                   scanVars>>

\* One iteration of the while loop.
RangeIterate ==
    /\ rangePc = "loop"
    /\ loopCond(loopStart, loopMax)
    /\ ranges' = Append(ranges, loopRange(loopStart))
    /\ loopStart' = loopStart + rangeSize
    /\ UNCHANGED <<charSet, rangePc, loopMax, srcVars, distVars, runVars,
                   fontFiles, scanVars>>

\* The loop ends and the function returns ranges.
RangeReturn ==
    /\ rangePc = "loop"
    /\ ~loopCond(loopStart, loopMax)
    /\ rangePc' = "returned"
    /\ UNCHANGED <<charSet, loopStart, loopMax, ranges, srcVars, distVars,
                   runVars, fontFiles, scanVars>>

NextRanges == RangeEnter \/ RangeIterate \/ RangeReturn

SpecRanges == InitRanges /\ [][NextRanges]_vars

-----------------------------------------------------------------------------
(* The directory scanner on its own *)

InitScan ==
    /\ RangeIdle
    /\ srcStatus = "ok"
    /\ tree \in Trees(ScanUniverse)
    /\ dirOrder \in {"asc", "desc"}
    /\ fontOf = <<>>
    /\ rasterErr = {}
    /\ distExists = FALSE /\ distDirs = {} /\ dist = <<>> /\ distAtStart = <<>>
    /\ RunIdle

Scan ==
    /\ scans < MaxScans
    /\ scans' = scans + 1
    /\ prevFiles' = fontFiles
    /\ fontFiles' = walkDirectory(tree, dirOrder, <<>>)
    /\ UNCHANGED <<rangeVars, srcVars, distVars, runVars>>

NextScan == Scan

SpecScan == InitScan /\ [][NextScan]_vars

-----------------------------------------------------------------------------
(* The pipeline *)

Init ==
    /\ RangeIdle
    /\ srcStatus \in {"ok", "missing", "unreadable"}
    /\ tree \in IF srcStatus = "missing" THEN {<<>>}
                ELSE Trees(PipelineUniverse)
    /\ dirOrder \in {"asc", "desc"}
    /\ fontOf \in Contents(tree)
    /\ rasterErr \in SUBSET RasterErrCandidates
    /\ distExists \in BOOLEAN
    /\ \E stale \in IF distExists THEN SUBSET StaleFiles ELSE {{}} :
          /\ dist = [f \in stale |-> OldPacket]
          /\ distDirs = {f[1] : f \in stale}
    /\ distAtStart = dist
    /\ RunIdle

\* One run of the script up to the end of its synchronous body. fontnik.range
\* completes asynchronously: no callback runs before the body has ended, and
\* the process lives until every callback has run.
generateGlyphsFromFonts ==
    /\ runs < MaxRuns
    /\ Pending = {}
    /\ runs' = runs + 1
    /\ distAtStart' = dist
    /\ distExists' = TRUE
    /\ errored' = {}
    /\ generated' = {}
    /\ IF readdirThrows(srcStatus)
       THEN /\ aborted' = TRUE
            /\ fontFiles' = <<>>
            /\ processed' = {} /\ skipped' = {} /\ calls' = <<>>
            /\ UNCHANGED distDirs
       ELSE LET files == walkDirectory(tree, dirOrder, <<>>)
                done == forEachFont(files, 1, fontOf,
                            [processed |-> {}, skipped |-> {}, dirs |-> {},
                             calls |-> <<>>])
            IN  /\ aborted' = FALSE
                /\ fontFiles' = files
                /\ processed' = done.processed
                /\ skipped' = done.skipped
                /\ calls' = done.calls
                /\ distDirs' = distDirs \cup done.dirs
    /\ UNCHANGED <<rangeVars, srcVars, dist, scanVars>>

\* The callback of call i receives err: the error is logged, nothing else.
RangeCallbackErr(i) ==
    /\ i \in Pending
    /\ rasterFails(calls[i])
    /\ errored' = onRangeError(i)
    /\ UNCHANGED <<rangeVars, srcVars, distVars, runs, aborted, fontFiles,
                   processed, skipped, calls, generated, distAtStart,
                   scanVars>>

\* The callback of call i receives the packet and writes it.
RangeCallbackOk(i) ==
    /\ i \in Pending
    /\ ~rasterFails(calls[i])
    /\ dist' = writeFileSync(dist, outFile(calls[i]), packet(calls[i]))
    /\ generated' = generated \cup {i}
    /\ UNCHANGED <<rangeVars, srcVars, distExists, distDirs, runs, aborted,
                   fontFiles, processed, skipped, calls, errored,
                   distAtStart, scanVars>>

CallbackErr == \E i \in 1..Len(calls) : RangeCallbackErr(i)
CallbackOk == \E i \in 1..Len(calls) : RangeCallbackOk(i)

Next == generateGlyphsFromFonts \/ CallbackErr \/ CallbackOk

Spec == Init /\ [][Next]_vars

\* The last run has ended: its body and every callback have run.
RunEnded == runs >= 1 /\ Pending = {}

-----------------------------------------------------------------------------
(* Properties *)

SeqRange(s) == {s[i] : i \in 1..Len(s)}

\* C1: for a non-empty set of codepoints with minimum m and maximum
\* M <= 65535, the ranges returned start at floor(m/256)*256, every start is
\* a multiple of 256, every range is exactly 256 wide, each range starts
\* right after the previous one ends, and M lies inside the last range.
C1_AlignedContiguousCover ==
    (rangePc = "returned" /\ charSet # {} /\ SetMax(charSet) <= MaxCodepoint)
    => LET m == SetMin(charSet)
           M == SetMax(charSet)
           n == Len(ranges)
       IN  /\ n >= 1
           /\ ranges[1][1] = (m \div 256) * 256
           /\ \A i \in 1..n : /\ ranges[i][1] % 256 = 0
                              /\ ranges[i][2] = ranges[i][1] + 255
           /\ \A i \in 2..n : ranges[i][1] = ranges[i - 1][2] + 1
           /\ ranges[n][1] <= M /\ M <= ranges[n][2]

C1_Witness ==
    /\ rangePc = "returned"
    /\ charSet = {300, 65279, 65535}
    /\ Len(ranges) = 255

\* C2: every range the range computer produces, whatever the codepoints,
\* ends at 65535 or below.
C2_EndWithinLimit ==
    rangePc = "returned"
    => \A i \in 1..Len(ranges) : ranges[i][2] <= MaxCodepoint

\* Case-insensitive equality of a name's suffix with a lower-case extension.
SameLetter(c, l) ==
    c = l \/ <<c, l>> \in {<<"T", "t">>, <<"F", "f">>, <<"O", "o">>}

HasExtension(name, ext) ==
    /\ Len(name) > Len(ext)
    /\ \A k \in 1..Len(ext) : SameLetter(name[Len(name) - Len(ext) + k], ext[k])

HasFontExtension(name) ==
    \/ HasExtension(name, <<".", "t", "t", "f">>)
    \/ HasExtension(name, <<".", "o", "t", "f">>)

\* C3: the scan returns exactly the paths of the non-directory entries of
\* the tree, at any depth, whose extension is .ttf or .otf in any letter
\* case, each once, and a second scan of the same tree returns the same list.
C3_ScanExact ==
    scans >= 1
    => /\ SeqRange(fontFiles) =
             {q \in DOMAIN tree : tree[q] = "file" /\ HasFontExtension(Last(q))}
       /\ \A i, j \in 1..Len(fontFiles) : fontFiles[i] = fontFiles[j] => i = j
       /\ scans >= 2 => fontFiles = prevFiles

C3_Witness ==
    /\ scans = 2
    /\ <<Str_b, Str_c, Str_a_ttf>> \in SeqRange(fontFiles)
    /\ <<Str_x_ttf, Str_a_OTF>> \in SeqRange(fontFiles)
    /\ <<Str_b, Str_d_txt>> \in DOMAIN tree
    /\ <<Str_dotttf>> \in DOMAIN tree

CallKey(c) == <<c.fontFile, c.start, c.end>>

\* C4: a call whose callback receives err writes nothing and is issued once;
\* every range of every font of the scan is submitted whatever fails; and
\* when the run has ended every call that did not fail has written its file.
C4_FailureIsLocal ==
    /\ \A i \in 1..Len(calls) : rasterFails(calls[i]) => i \notin generated
    /\ \A i \in errored :
          /\ rasterFails(calls[i])
          /\ (/\ outFile(calls[i]) \notin DOMAIN distAtStart
              /\ \A j \in 1..Len(calls) :
                    outFile(calls[j]) = outFile(calls[i]) => j = i)
             => outFile(calls[i]) \notin DOMAIN dist
    /\ \A i, j \in 1..Len(calls) : CallKey(calls[i]) = CallKey(calls[j]) => i = j
    /\ \A f \in SeqRange(fontFiles) :
          \A r \in SeqRange(generateDynamicRangesFromFont(fontOf[f])) :
             \E i \in 1..Len(calls) : CallKey(calls[i]) = <<f, r[1], r[2]>>
    /\ RunEnded
       => \A i \in 1..Len(calls) :
             ~rasterFails(calls[i])
             => /\ i \in generated
                /\ outFile(calls[i]) \in DOMAIN dist

C4_Witness ==
    /\ RunEnded
    /\ \E i \in errored : \E j, k \in generated :
          /\ calls[j].fontFile = calls[i].fontFile
          /\ calls[k].fontFile # calls[i].fontFile

\* C5: a font without codepoints yields no range, is skipped without any
\* rasterizer call, and every other font file of the scan is still read and,
\* when it has codepoints, submitted.
C5_EmptyFontSkipped ==
    \A f \in SeqRange(fontFiles) :
       characterSet(fontOf[f]) = {}
       => /\ generateDynamicRangesFromFont(fontOf[f]) = <<>>
          /\ f \in skipped
          /\ \A i \in 1..Len(calls) : calls[i].fontFile # f
          /\ \A g \in SeqRange(fontFiles) :
                /\ g \in processed
                /\ characterSet(fontOf[g]) # {}
                   => \E i \in 1..Len(calls) : calls[i].fontFile = g

C5_Witness ==
    /\ runs >= 1
    /\ Len(fontFiles) >= 2
    /\ fontFiles[1] \in skipped
    /\ \E i \in generated : calls[i].fontFile = fontFiles[Len(fontFiles)]

\* C6: when a run has ended, every file of the destination was written by
\* that run.
C6_NoLeftover ==
    RunEnded
    => \A f \in DOMAIN dist : \E i \in generated : outFile(calls[i]) = f

\* C7: when a second run on the same source has ended, the destination holds
\* the same files with the same contents as when that run started, that is,
\* as after the run before it.
C7_SecondRunSame ==
    (runs >= 2 /\ Pending = {}) => dist = distAtStart

\* C8: two calls for distinct font files never share an output path, and
\* when the run has ended every file written holds the packet of the call
\* it is named for.
C8_OwnOutputPath ==
    /\ \A i, j \in 1..Len(calls) :
          calls[i].fontFile # calls[j].fontFile
          => outFile(calls[i]) # outFile(calls[j])
    /\ RunEnded
       => \A i \in generated : dist[outFile(calls[i])] = packet(calls[i])

\* C9: with a missing or unreadable source root, a run aborts: no font file
\* is read, the rasterizer is not called and no file is written.
C9_MissingSourceAborts ==
    (runs >= 1 /\ srcStatus # "ok")
    => /\ aborted
       /\ fontFiles = <<>>
       /\ processed = {}
       /\ calls = <<>>
       /\ generated = {}
       /\ dist = distAtStart

C9_Witness ==
    /\ runs >= 1
    /\ srcStatus = "unreadable"
    /\ <<Str_a_ttf>> \in DOMAIN tree
    /\ aborted

\* The destination after the callbacks of cs, from the i-th on, have run in
\* the order of the calls.
RECURSIVE InCallOrder(_, _, _)
InCallOrder(files, cs, i) ==
    IF i > Len(cs) THEN files
    ELSE InCallOrder(IF rasterFails(cs[i]) THEN files
                     ELSE writeFileSync(files, outFile(cs[i]), packet(cs[i])),
                     cs, i + 1)

\* C10: when the run has ended, the destination is the same whatever the
\* order in which the callbacks ran: it is what the order of the calls gives.
C10_OrderIndependent ==
    RunEnded => dist = InCallOrder(distAtStart, calls, 1)

====
